---- MODULE Spec2Model ----
(***************************************************************************)
(* State-machine model of server.js: the Express handlers for             *)
(* POST /api/auth/signup, POST /api/upload, GET /api/files and            *)
(* DELETE /api/files/:fileId, the verifyToken middleware, and the external *)
(* stores they drive (Firebase Auth users, Cloud Storage bucket, Firestore *)
(* 'files' collection, Firestore 'users/{uid}.uploads' counter).           *)
(*  Every `await` in a handler is one      *)
(* step: the remote call either resolves (its effect is applied) or       *)
(* rejects (no effect), and the code that follows it up to the next       *)
(* `await` runs in the same step.                                         *)
(***************************************************************************)
EXTENDS Integers, FiniteSets, Sequences, TLC

VARIABLES
    objects,   \* paths of the objects held by the bucket
    files,     \* Firestore collection 'files': document id -> document
    auth,      \* Firebase Auth: uid -> email of every user created
    uploads,   \* Firestore users/{uid}.uploads, for every users document
    nextId,    \* ids already handed out by collection('files').add
    clock,     \* Date.now()
    up,        \* the Node process is running
    runs       \* one entry per HTTP request

vars == <<objects, files, auth, uploads, nextId, clock, up, runs>>

\* ---------------------------------------------------------------- bounds
MaxReq == 2
MaxClock == 2

Reqs == 1..MaxReq

\* ---------------------------------------------------------------- inputs
\* the uids Firebase Auth hands out, and what a signup request carries
Users == {"u1", "u2"}
Emails == {"a@x.com", "b@x.com"}
Passwords == {"", "secret1"}

NoHeader == "<none>"
AuthHeaders == {NoHeader, "Basic x", "Bearer u1", "Bearer u2"}

NoFile == "<nofile>"
FileNames == {"a.jpg"}

FileIds == 1..MaxReq

Kinds == {"upload", "delete"}

NewRun ==
    [kind |-> "", token |-> "", uid |-> "", email |-> "", name |-> "",
     fileId |-> 0,
     path |-> "",
     docId |-> 0, pc |-> "new", status |-> 0, error |-> "", body |-> {},
     nresp |-> 0, failed |-> "none", attempted |-> {}]

\* ---------------------------------------------------------------- helpers

\* authHeader.split('Bearer ')[1]
BearerToken(header) ==
    CASE header = "Bearer u1" -> "u1"
      [] header = "Bearer u2" -> "u2"
      [] OTHER -> ""

\* admin.auth().getUser(token) can resolve only for the uid of a created user
GetUserOk(token) == token \in DOMAIN auth

\* `uploads/${req.user.uid}/${Date.now()}_${file.originalname}`
StoragePath(uid, now, originalname) ==
    "uploads/" \o uid \o "/" \o ToString(now) \o "_" \o originalname

\* res.status(code).json({ error: err }): the handler is over
Respond(run, code, err) ==
    [run EXCEPT !.status = code, !.error = err, !.nresp = @ + 1, !.pc = "done"]

\* res.status(200).json({ message, file: { id, name, size, url, type } }),
\* lines 228-237: the body carries the document id and, in url, the object name
RespondFile(run) ==
    [run EXCEPT !.status = 200, !.body = {ToString(run.docId), run.path},
                !.nresp = @ + 1, !.pc = "done"]

\* a rejected promise inside the async 'finish' listener: nothing catches it,
\* the listener ends and no response is written
Reject(run, stage) ==
    [run EXCEPT !.failed = stage, !.pc = "hung"]

\* db.collection('files').where('userId', '==', uid).get()
ListFiles(uid) == {id \in DOMAIN files : files[id].userId = uid}

\* ---------------------------------------------------------------- Init
\* The process starts against stores that hold what an earlier session left
\* in them: either the signup of u1 and nothing else, or the signups of u1
\* and u2 and one completed upload (by u1, at time 0).
EarlierPath == StoragePath("u1", 0, "a.jpg")

EarlierDoc ==
    [userId |-> "u1", fileName |-> "a.jpg", storagePath |-> EarlierPath,
     uploadedAt |-> 0]

Init ==
    /\ \/ /\ auth = [u \in {"u1"} |-> "a@x.com"]
          /\ objects = {}
          /\ files = <<>>
          /\ uploads = [u \in {"u1"} |-> 0]
          /\ nextId = 1
       \/ /\ auth = [u \in Users |-> IF u = "u1" THEN "a@x.com" ELSE "b@x.com"]
          /\ objects = {EarlierPath}
          /\ files = <<EarlierDoc>>
          /\ uploads = [u \in Users |-> IF u = "u1" THEN 1 ELSE 0]
          /\ nextId = 2
    /\ clock = 1
    /\ up = TRUE
    /\ runs = [r \in Reqs |-> NewRun]

\* the wall clock advances between any two steps
Tick ==
    /\ up
    /\ clock < MaxClock
    /\ clock' = clock + 1
    /\ UNCHANGED <<objects, files, auth, uploads, nextId, up, runs>>

\* ---------------------------------------------------------------- POST /api/auth/signup

\* lines 74-79
SignupCatch(run, stage, message) ==
    Respond([run EXCEPT !.failed = stage], 400, message)

\* lines 41-56: missing email or password -> 400; otherwise createUser is
\* issued
SignupBegin(r) ==
    /\ up
    /\ runs[r].pc = "new"
    /\ \A q \in Reqs : q < r => runs[q].pc # "new"
    /\ \E email \in Emails \cup {""}, password \in Passwords :
        runs' = [runs EXCEPT ![r] =
            IF email = "" \/ password = ""
            THEN Respond([runs[r] EXCEPT !.kind = "signup"],
                         400, "Email and password are required")
            ELSE [runs[r] EXCEPT !.kind = "signup", !.email = email,
                                 !.attempted = @ \cup {"create-user"},
                                 !.pc = "createUser"]]
    /\ UNCHANGED <<objects, files, auth, uploads, nextId, clock, up>>

\* lines 52-64: createUser resolved with a uid no user has; the users
\* document write is issued
CreateUserOk(r) ==
    /\ up
    /\ runs[r].pc = "createUser"
    /\ \A u \in DOMAIN auth : auth[u] # runs[r].email
    /\ \E uid \in Users \ DOMAIN auth :
        /\ auth' = [u \in DOMAIN auth \cup {uid} |->
                       IF u = uid THEN runs[r].email ELSE auth[u]]
        /\ runs' = [runs EXCEPT ![r] =
             [runs[r] EXCEPT !.uid = uid,
                             !.attempted = @ \cup {"set-user-doc"},
                             !.pc = "setUserDoc"]]
    /\ UNCHANGED <<objects, files, uploads, nextId, clock, up>>

\* line 52 rejects (always when the email is taken)
CreateUserFail(r) ==
    /\ up
    /\ runs[r].pc = "createUser"
    /\ runs' = [runs EXCEPT ![r] =
         SignupCatch(runs[r], "create-user", "createUser rejected")]
    /\ UNCHANGED <<objects, files, auth, uploads, nextId, clock, up>>

\* lines 59-73: users/{uid} is written with uploads: 0; 201 with the uid
SetUserDocOk(r) ==
    /\ up
    /\ runs[r].pc = "setUserDoc"
    /\ uploads' = [u \in DOMAIN uploads \cup {runs[r].uid} |->
                      IF u = runs[r].uid THEN 0 ELSE uploads[u]]
    /\ runs' = [runs EXCEPT ![r] =
         [runs[r] EXCEPT !.status = 201, !.body = {runs[r].uid},
                         !.nresp = @ + 1, !.pc = "done"]]
    /\ UNCHANGED <<objects, files, auth, nextId, clock, up>>

\* line 59 rejects: the Auth user stays, with no users document
SetUserDocFail(r) ==
    /\ up
    /\ runs[r].pc = "setUserDoc"
    /\ runs' = [runs EXCEPT ![r] =
         SignupCatch(runs[r], "set-user-doc", "set rejected")]
    /\ UNCHANGED <<objects, files, auth, uploads, nextId, clock, up>>

\* ---------------------------------------------------------------- verifyToken
\* lines 128-145: the header checks, then getUser(token) is issued.  The
\* request's method, path parameter and multipart body arrive with it; a
\* request rejected here never reads them.
VerifyToken(r) ==
    /\ up
    /\ runs[r].pc = "new"
    /\ \A q \in Reqs : q < r => runs[q].pc # "new"
    /\ \E header \in AuthHeaders, kind \in Kinds,
          name \in FileNames \cup {NoFile}, fid \in FileIds :
        LET req == [runs[r] EXCEPT
                        !.kind = kind,
                        !.name = IF kind = "upload" THEN name ELSE "",
                        !.fileId = IF kind = "delete" THEN fid ELSE 0]
            token == BearerToken(header)
        IN  /\ kind # "upload" => name = NoFile
            /\ kind # "delete" => fid = 1
            /\ runs' = [runs EXCEPT ![r] =
                 IF header = NoHeader
                 THEN Respond(runs[r], 401, "No authorization header provided")
                 ELSE IF token = ""
                 THEN Respond(runs[r], 401, "No token provided")
                 ELSE [req EXCEPT !.token = token, !.pc = "getUser"]]
    /\ UNCHANGED <<objects, files, auth, uploads, nextId, clock, up>>

\* lines 145-151: getUser resolved; req.user is set and next() hands the
\* request to its route (for DELETE the document read is issued)
GetUserResolved(r) ==
    /\ up
    /\ runs[r].pc = "getUser"
    /\ GetUserOk(runs[r].token)
    /\ runs' = [runs EXCEPT ![r] =
         [runs[r] EXCEPT !.uid = runs[r].token, !.pc = runs[r].kind]]
    /\ UNCHANGED <<objects, files, auth, uploads, nextId, clock, up>>

\* lines 152-157: getUser rejected (always when no user has that uid)
GetUserRejected(r) ==
    /\ up
    /\ runs[r].pc = "getUser"
    /\ runs' = [runs EXCEPT ![r] =
         Respond(runs[r], 401, "Invalid or expired token")]
    /\ UNCHANGED <<objects, files, auth, uploads, nextId, clock, up>>

\* ---------------------------------------------------------------- POST /api/upload

\* UploadBegin that does not wait for the stream's 'finish' before it goes on
\* to makePublic and the record
UploadBeginNoWait(r) ==
    /\ up
    /\ runs[r].pc = "upload"
    /\ runs' = [runs EXCEPT ![r] =
         IF runs[r].name = NoFile
         THEN Respond(runs[r], 400, "No file uploaded")
         ELSE [runs[r] EXCEPT
                  !.path = StoragePath(runs[r].uid, clock, runs[r].name),
                  !.attempted = @ \cup {"write-object", "make-public"},
                  !.pc = "makePublic"]]
    /\ UNCHANGED <<objects, files, auth, uploads, nextId, clock, up>>

\* lines 171-193 and 240: no file -> 400; otherwise the object name is built
\* from Date.now() and the write stream is opened and fed
UploadBegin(r) ==
    /\ up
    /\ runs[r].pc = "upload"
    /\ runs' = [runs EXCEPT ![r] =
         IF runs[r].name = NoFile
         THEN Respond(runs[r], 400, "No file uploaded")
         ELSE [runs[r] EXCEPT
                  !.path = StoragePath(runs[r].uid, clock, runs[r].name),
                  !.attempted = @ \cup {"write-object"},
                  !.pc = "stream"]]
    /\ UNCHANGED <<objects, files, auth, uploads, nextId, clock, up>>

\* StreamError whose 'finish' listener runs all the same
StreamErrorThenFinish(r) ==
    /\ up
    /\ runs[r].pc = "stream"
    /\ runs' = [runs EXCEPT ![r] =
         [Respond([runs[r] EXCEPT !.failed = "write-object"],
                  500, "Failed to upload file")
            EXCEPT !.attempted = @ \cup {"make-public"}, !.pc = "makePublic"]]
    /\ UNCHANGED <<objects, files, auth, uploads, nextId, clock, up>>

\* lines 195-198: the stream emits 'error'; nothing was stored
StreamError(r) ==
    /\ up
    /\ runs[r].pc = "stream"
    /\ runs' = [runs EXCEPT ![r] =
         Respond([runs[r] EXCEPT !.failed = "write-object"],
                 500, "Failed to upload file")]
    /\ UNCHANGED <<objects, files, auth, uploads, nextId, clock, up>>

\* line 200: the stream emits 'finish'; the object now exists under path
\* (an object already stored under that name is replaced); the listener
\* starts and awaits makePublic (line 204)
StreamFinish(r) ==
    /\ up
    /\ runs[r].pc = "stream"
    /\ objects' = objects \cup {runs[r].path}
    /\ runs' = [runs EXCEPT ![r] =
         [runs[r] EXCEPT !.attempted = @ \cup {"make-public"},
                         !.pc = "makePublic"]]
    /\ UNCHANGED <<files, auth, uploads, nextId, clock, up>>

\* the rejection of an await inside the 'finish' listener is unhandled:
\* Node either only warns or ends the process, depending on its version
\* and --unhandled-rejections
UnhandledRejection(r, stage, from) ==
    /\ up
    /\ runs[r].pc = from
    /\ runs' = [runs EXCEPT ![r] = Reject(runs[r], stage)]
    /\ up' \in BOOLEAN
    /\ UNCHANGED <<objects, files, auth, uploads, nextId, clock>>

\* lines 204-217: makePublic resolved; collection('files').add is issued
MakePublicOk(r) ==
    /\ up
    /\ runs[r].pc = "makePublic"
    /\ runs' = [runs EXCEPT ![r] =
         [runs[r] EXCEPT !.attempted = @ \cup {"create-record"},
                         !.pc = "addRecord"]]
    /\ UNCHANGED <<objects, files, auth, uploads, nextId, clock, up>>

MakePublicFail(r) == UnhandledRejection(r, "make-public", "makePublic")

\* the document written by lines 209-217
FileDoc(run) ==
    [userId |-> run.uid, fileName |-> run.name, storagePath |-> run.path,
     uploadedAt |-> clock]

\* lines 209-224: add resolved with a fresh document id; the counter update
\* is issued
AddRecordOk(r) ==
    /\ up
    /\ runs[r].pc = "addRecord"
    /\ files' = [id \in DOMAIN files \cup {nextId} |->
                    IF id = nextId THEN FileDoc(runs[r]) ELSE files[id]]
    /\ nextId' = nextId + 1
    /\ runs' = [runs EXCEPT ![r] =
         [runs[r] EXCEPT !.docId = nextId,
                         !.attempted = @ \cup {"increment-counter"},
                         !.pc = "incCounter"]]
    /\ UNCHANGED <<objects, auth, uploads, clock, up>>

AddRecordFail(r) == UnhandledRejection(r, "create-record", "addRecord")

\* lines 222-237: FieldValue.increment(1) applied to the existing users
\* document; 200 with the file id
IncCounterOk(r) ==
    /\ up
    /\ runs[r].pc = "incCounter"
    /\ runs[r].uid \in DOMAIN uploads
    /\ uploads' = [uploads EXCEPT ![runs[r].uid] = @ + 1]
    /\ runs' = [runs EXCEPT ![r] = RespondFile(runs[r])]
    /\ UNCHANGED <<objects, files, auth, nextId, clock, up>>

IncCounterFail(r) == UnhandledRejection(r, "increment-counter", "incCounter")

\* ---------------------------------------------------------------- DELETE /api/files/:fileId

\* lines 307-310
DeleteCatch(run, stage) ==
    Respond([run EXCEPT !.failed = stage], 500, "Failed to delete file")

\* DeleteLookup without the ownership check of lines 289-291
DeleteLookupNoOwnerCheck(r) ==
    /\ up
    /\ runs[r].pc = "delete"
    /\ runs' = [runs EXCEPT ![r] =
         IF runs[r].fileId \notin DOMAIN files
         THEN Respond(runs[r], 404, "File not found")
         ELSE [runs[r] EXCEPT
                  !.path = files[runs[r].fileId].storagePath,
                  !.attempted = @ \cup {"delete-object"},
                  !.pc = "delObject"]]
    /\ UNCHANGED <<objects, files, auth, uploads, nextId, clock, up>>

\* lines 277-294: the document is read; 404 if absent, 403 if owned by
\* someone else, otherwise bucket.file(storagePath).delete() is issued
DeleteLookup(r) ==
    /\ up
    /\ runs[r].pc = "delete"
    /\ runs' = [runs EXCEPT ![r] =
         IF runs[r].fileId \notin DOMAIN files
         THEN Respond(runs[r], 404, "File not found")
         ELSE IF files[runs[r].fileId].userId # runs[r].uid
         THEN Respond(runs[r], 403, "Unauthorized")
         ELSE [runs[r] EXCEPT
                  !.path = files[runs[r].fileId].storagePath,
                  !.attempted = @ \cup {"delete-object"},
                  !.pc = "delObject"]]
    /\ UNCHANGED <<objects, files, auth, uploads, nextId, clock, up>>

\* line 280 rejects
DeleteLookupFail(r) ==
    /\ up
    /\ runs[r].pc = "delete"
    /\ runs' = [runs EXCEPT ![r] = DeleteCatch(runs[r], "lookup")]
    /\ UNCHANGED <<objects, files, auth, uploads, nextId, clock, up>>

\* lines 294-297: the object is removed; the document delete is issued
DeleteObjectOk(r) ==
    /\ up
    /\ runs[r].pc = "delObject"
    /\ runs[r].path \in objects
    /\ objects' = objects \ {runs[r].path}
    /\ runs' = [runs EXCEPT ![r] =
         [runs[r] EXCEPT !.attempted = @ \cup {"delete-record"},
                         !.pc = "delRecord"]]
    /\ UNCHANGED <<files, auth, uploads, nextId, clock, up>>

\* DeleteObjectFail that swallows the rejection and goes on to the record
DeleteObjectFailIgnored(r) ==
    /\ up
    /\ runs[r].pc = "delObject"
    /\ runs' = [runs EXCEPT ![r] =
         [runs[r] EXCEPT !.failed = "delete-object",
                         !.attempted = @ \cup {"delete-record"},
                         !.pc = "delRecord"]]
    /\ UNCHANGED <<objects, files, auth, uploads, nextId, clock, up>>

\* line 294 rejects (always when no object has that name)
DeleteObjectFail(r) ==
    /\ up
    /\ runs[r].pc = "delObject"
    /\ runs' = [runs EXCEPT ![r] = DeleteCatch(runs[r], "delete-object")]
    /\ UNCHANGED <<objects, files, auth, uploads, nextId, clock, up>>

\* lines 297-302: the document is removed (deleting an absent document
\* resolves too); the counter update is issued
DeleteRecordOk(r) ==
    /\ up
    /\ runs[r].pc = "delRecord"
    /\ files' = [id \in DOMAIN files \ {runs[r].fileId} |-> files[id]]
    /\ runs' = [runs EXCEPT ![r] =
         [runs[r] EXCEPT !.attempted = @ \cup {"decrement-counter"},
                         !.pc = "decCounter"]]
    /\ UNCHANGED <<objects, auth, uploads, nextId, clock, up>>

DeleteRecordFail(r) ==
    /\ up
    /\ runs[r].pc = "delRecord"
    /\ runs' = [runs EXCEPT ![r] = DeleteCatch(runs[r], "delete-record")]
    /\ UNCHANGED <<objects, files, auth, uploads, nextId, clock, up>>

\* lines 300-306: FieldValue.increment(-1) applied to the existing users
\* document; 200
DecCounterOk(r) ==
    /\ up
    /\ runs[r].pc = "decCounter"
    /\ runs[r].uid \in DOMAIN uploads
    /\ uploads' = [uploads EXCEPT ![runs[r].uid] = @ - 1]
    /\ runs' = [runs EXCEPT ![r] = Respond(runs[r], 200, "")]
    /\ UNCHANGED <<objects, files, auth, nextId, clock, up>>

DecCounterFail(r) ==
    /\ up
    /\ runs[r].pc = "decCounter"
    /\ runs' = [runs EXCEPT ![r] = DeleteCatch(runs[r], "decrement-counter")]
    /\ UNCHANGED <<objects, files, auth, uploads, nextId, clock, up>>

\* ---------------------------------------------------------------- Next
Next ==
    \/ Tick
    \/ \E r \in Reqs : SignupBegin(r)
    \/ \E r \in Reqs : CreateUserOk(r)
    \/ \E r \in Reqs : CreateUserFail(r)
    \/ \E r \in Reqs : SetUserDocOk(r)
    \/ \E r \in Reqs : SetUserDocFail(r)
    \/ \E r \in Reqs : VerifyToken(r)
    \/ \E r \in Reqs : GetUserResolved(r)
    \/ \E r \in Reqs : GetUserRejected(r)
    \/ \E r \in Reqs : UploadBegin(r)
    \/ \E r \in Reqs : StreamError(r)
    \/ \E r \in Reqs : StreamFinish(r)
    \/ \E r \in Reqs : MakePublicOk(r)
    \/ \E r \in Reqs : MakePublicFail(r)
    \/ \E r \in Reqs : AddRecordOk(r)
    \/ \E r \in Reqs : AddRecordFail(r)
    \/ \E r \in Reqs : IncCounterOk(r)
    \/ \E r \in Reqs : IncCounterFail(r)
    \/ \E r \in Reqs : DeleteLookup(r)
    \/ \E r \in Reqs : DeleteLookupFail(r)
    \/ \E r \in Reqs : DeleteObjectOk(r)
    \/ \E r \in Reqs : DeleteObjectFail(r)
    \/ \E r \in Reqs : DeleteRecordOk(r)
    \/ \E r \in Reqs : DeleteRecordFail(r)
    \/ \E r \in Reqs : DecCounterOk(r)
    \/ \E r \in Reqs : DecCounterFail(r)

Spec == Init /\ [][Next]_vars

\* ---------------------------------------------------------------- properties

Ended(r) == runs[r].pc \in {"done", "hung"}

Stores == <<objects, files, auth, uploads>>

\* C1: when collection('files').add fails after the object was written, the
\* run ends with the object deleted or with an error response that carries
\* the object's path.
C1_OrphanRemovedOrReported ==
    \A r \in Reqs :
        (Ended(r) /\ runs[r].failed = "create-record") =>
            \/ runs[r].path \notin objects
            \/ /\ runs[r].nresp = 1
               /\ runs[r].status >= 400
               /\ runs[r].path \in runs[r].body

\* C2: when only the counter increment fails, the caller still gets the 200
\* with the file id, and the record and the object are still there.
C2_CounterFailureStillSuccess ==
    \A r \in Reqs :
        (Ended(r) /\ runs[r].failed = "increment-counter") =>
            /\ runs[r].nresp = 1
            /\ runs[r].status = 200
            /\ ToString(runs[r].docId) \in runs[r].body
            /\ runs[r].docId \in ListFiles(runs[r].uid)
            /\ runs[r].path \in objects

\* C3 as stated: a DELETE by P of an existing record owned by Q is answered
\* 403, and the objects, the records and the counters are the same before and
\* after it.
C3_ForbiddenDeleteAnswers403 ==
    [][\A r \in Reqs :
          ( /\ runs[r].pc = "delete"
            /\ runs'[r] # runs[r]
            /\ runs[r].fileId \in DOMAIN files
            /\ files[runs[r].fileId].userId # runs[r].uid )
          => /\ runs'[r].status = 403
             /\ Stores' = Stores
      ]_vars

\* C3 as amended: a DELETE by P of an existing record owned by Q is answered
\* 403, or 500 'Failed to delete file' when the read of the record itself
\* rejects; either way it is answered once, attempts no stage, takes no
\* further step, and no step of the request (verifyToken, getUser, lookup)
\* changes an object, a record, a user or a counter, whatever other requests
\* do in between.
C3_ForbiddenDeleteNoMutation ==
    [][\A r \in Reqs :
          /\ ( /\ runs[r].pc = "delete"
               /\ runs'[r] # runs[r]
               /\ runs[r].fileId \in DOMAIN files
               /\ files[runs[r].fileId].userId # runs[r].uid )
             => /\ \/ /\ runs'[r].status = 403
                      /\ runs'[r].error = "Unauthorized"
                      /\ runs'[r].failed = "none"
                   \/ /\ runs'[r].status = 500
                      /\ runs'[r].error = "Failed to delete file"
                      /\ runs'[r].failed = "lookup"
                /\ runs'[r].nresp = 1
                /\ runs'[r].pc = "done"
                /\ runs'[r].attempted = {}
                /\ Stores' = Stores
          /\ ( /\ runs'[r] # runs[r]
               /\ runs'[r].kind = "delete"
               /\ runs'[r].attempted = {} )
             => Stores' = Stores
          /\ (runs[r].status = 403 \/ runs[r].failed = "lookup")
             => runs'[r] = runs[r]
      ]_vars

\* the 403 has been answered while another request is in the middle of its
\* own pipeline
C3_Witness ==
    \E r, q \in Reqs :
        /\ runs[r].kind = "delete"
        /\ runs[r].status = 403
        /\ runs[r].fileId \in DOMAIN files
        /\ files[runs[r].fileId].userId # runs[r].uid
        /\ q # r
        /\ runs[q].kind \in Kinds
        /\ runs[q].attempted # {}
        /\ ~Ended(q)

\* C4 as stated: when bucket.file(storagePath).delete() fails, the FileRecord
\* still exists when the run ends.
C4_RecordExistsAtEnd ==
    [][\A r \in Reqs :
          (runs[r].pc = "delObject" /\ runs'[r].failed = "delete-object")
             => runs[r].fileId \in DOMAIN files'
      ]_vars

\* C4 as amended: when bucket.file(storagePath).delete() fails, the run
\* answers 500 'Failed to delete file' in that step, has not attempted and
\* never attempts delete-record or decrement-counter, and that step leaves
\* the objects, the records and the counters as they were.
C4_ObjectDeleteFailureAborts ==
    [][\A r \in Reqs :
          /\ (runs[r].pc = "delObject" /\ runs'[r].failed = "delete-object")
             => /\ runs'[r].status = 500
                /\ runs'[r].error = "Failed to delete file"
                /\ runs'[r].nresp = 1
                /\ runs'[r].pc = "done"
                /\ runs'[r].attempted = {"delete-object"}
                /\ Stores' = Stores
          /\ runs[r].failed = "delete-object" => runs'[r] = runs[r]
      ]_vars

C4_Witness ==
    \E r \in Reqs :
        /\ runs[r].failed = "delete-object"
        /\ runs[r].status = 500
        /\ runs[r].fileId \in DOMAIN files
        /\ runs[r].path \in objects

\* C5: when the write stream emits 'error', the run answers 500 in that
\* step, that step creates no record and changes no counter, and the run
\* attempts no later stage.
C5_WriteFailureAborts ==
    [][\A r \in Reqs :
          /\ (runs[r].pc = "stream" /\ runs'[r].failed = "write-object")
             => /\ runs'[r].status = 500
                /\ runs'[r].nresp = 1
                /\ runs'[r].pc = "done"
                /\ runs'[r].attempted = {"write-object"}
                /\ runs'[r].docId = 0
                /\ Stores' = Stores
          /\ runs[r].failed = "write-object" => runs'[r] = runs[r]
      ]_vars

C5_Witness ==
    \E r \in Reqs :
        /\ runs[r].failed = "write-object"
        /\ runs[r].status = 500
        /\ runs[r].path \notin objects

\* C6: no two records carry the same storagePath (every upload writes under
\* a name no earlier upload used).
C6_StoragePathsUnique ==
    \A i, j \in DOMAIN files :
        i # j => files[i].storagePath # files[j].storagePath

\* C7 as stated: every record's storagePath names an object that exists.
C7_RecordsReferenceObjects ==
    \A id \in DOMAIN files : files[id].storagePath \in objects

\* C7 as amended: every record's storagePath names an object that exists,
\* unless a delete run has completed its delete-object stage on that path.
C7_RecordsReferenceObjectsUnlessDeleted ==
    \A id \in DOMAIN files :
        \/ files[id].storagePath \in objects
        \/ \E r \in Reqs :
              /\ runs[r].kind = "delete"
              /\ "delete-record" \in runs[r].attempted
              /\ runs[r].path = files[id].storagePath

C7_Witness ==
    \E id \in DOMAIN files, r \in Reqs :
        /\ files[id].storagePath \notin objects
        /\ runs[r].failed = "delete-record"
        /\ runs[r].fileId = id

\* C8: when only the counter decrement fails, the delete is answered 200.
C8_DecrementFailureStillSuccess ==
    \A r \in Reqs :
        (Ended(r) /\ runs[r].failed = "decrement-counter") =>
            runs[r].status = 200

\* C9: a run that passed authentication and has ended has sent exactly one
\* response, and an error response if one of its stages failed.
C9_OneResponsePerRun ==
    \A r \in Reqs :
        (Ended(r) /\ runs[r].kind \in Kinds /\ runs[r].uid # "") =>
            /\ runs[r].nresp = 1
            /\ runs[r].failed # "none" => runs[r].status >= 400

\* C10: every principal's upload counter is non-negative.
C10_CounterNonNegative ==
    \A u \in DOMAIN uploads : uploads[u] >= 0
====
